---- MODULE Spec2Model ----
(***************************************************************************)
(* Model of x/mongo/driver/dns/dns.go: SRV seed-list resolution with its   *)
(* domain-suffix validation, and TXT option resolution with its allow-list.*)
(* A Go string is a sequence of one-character strings.                     *)
(***************************************************************************)
EXTENDS Integers, Sequences, FiniteSets, TLC

VARIABLES
    pc,                    \* position of the call being modelled
    host,                  \* argument of the resolver entry points
    RecordsToAdd,          \* DnsResolver.RecordsToAdd   [nil, elems]
    RecordsToRemove,       \* DnsResolver.RecordsToRemove [nil, elems]
    lookupSRV,             \* what net.LookupSRV answered: [err, addrs]
    srvQueries,            \* number of net.LookupSRV calls issued
    backing,               \* backing array of the slice `addresses`
    alen,                  \* len(addresses)
    ri,                    \* position of removeAddr in RecordsToRemove (1-based)
    j,                     \* index j of the inner range loop (0-based)
    rangeLen,              \* length the inner range statement was evaluated with
    parsedHosts,           \* returned []string (<<>> for nil)
    err,                   \* returned error ("" for nil)
    goos,                  \* runtime.GOOS
    lookupTXT,             \* what net.LookupTXT answered: [err, recs]
    recordsFromTXT,        \* local recordsFromTXT
    connectionArgsFromTXT, \* options returned by the TXT entry point (<<>> for nil)
    recordFromSRV,         \* arguments and result of a direct
    inputHostName,         \*   validateSRVResult call
    valResult

vars == <<pc, host, RecordsToAdd, RecordsToRemove, lookupSRV, srvQueries,
          backing, alen, ri, j, rangeLen, parsedHosts, err, goos, lookupTXT,
          recordsFromTXT, connectionArgsFromTXT, recordFromSRV, inputHostName,
          valResult>>

----------------------------------------------------------------------------
(* Bounds of the model *)

MaxLabels == 3      \* labels per name in direct validateSRVResult calls
MaxLookup == 2      \* records a net.LookupSRV answer holds
MaxAdd == 1         \* entries of RecordsToAdd
MaxRemove == 2      \* entries of RecordsToRemove
MaxPieces == 3      \* pieces a net.LookupTXT answer is assembled from

----------------------------------------------------------------------------
(* Go string primitives *)

RECURSIVE SeqsUpTo(_, _)
\* all sequences over S of length at most n
SeqsUpTo(S, n) ==
    IF n = 0 THEN {<<>>}
    ELSE LET shorter == SeqsUpTo(S, n - 1) IN
         shorter \cup {Append(s, x) : s \in {t \in shorter : Len(t) = n - 1}, x \in S}

RECURSIVE Concat(_)
\* concatenation of a sequence of strings
Concat(ss) == IF ss = <<>> THEN <<>> ELSE Head(ss) \o Concat(Tail(ss))

RECURSIVE Join(_, _)
\* strings.Join(elems, sep)
Join(elems, sep) ==
    IF elems = <<>> THEN <<>>
    ELSE IF Len(elems) = 1 THEN elems[1]
    ELSE elems[1] \o sep \o Join(Tail(elems), sep)

RECURSIVE SplitAcc(_, _, _, _)
SplitAcc(s, sep, k, cur) ==
    IF k > Len(s) THEN <<cur>>
    ELSE IF s[k] = sep THEN <<cur>> \o SplitAcc(s, sep, k + 1, <<>>)
    ELSE SplitAcc(s, sep, k + 1, Append(cur, s[k]))

\* strings.Split(s, sep) for a one-character separator: n separators give
\* n+1 parts, empty parts included
Split(s, sep) == SplitAcc(s, sep, 1, <<>>)

\* strings.TrimSuffix(s, suffix)
TrimSuffix(s, suffix) ==
    IF Len(s) >= Len(suffix)
       /\ SubSeq(s, Len(s) - Len(suffix) + 1, Len(s)) = suffix
    THEN SubSeq(s, 1, Len(s) - Len(suffix))
    ELSE s

\* index (0-based) of the first / last c in s, -1 when there is none
IndexByte(s, c) ==
    IF \E k \in 1..Len(s) : s[k] = c
    THEN (CHOOSE k \in 1..Len(s) : s[k] = c /\ \A m \in 1..(k - 1) : s[m] # c) - 1
    ELSE -1

LastIndexByte(s, c) ==
    IF \E k \in 1..Len(s) : s[k] = c
    THEN (CHOOSE k \in 1..Len(s) : s[k] = c /\ \A m \in (k + 1)..Len(s) : s[m] # c) - 1
    ELSE -1

\* s[from:] with a 0-based start
SliceFrom(s, from) == SubSeq(s, from + 1, Len(s))

DigitChar == <<"0", "1", "2", "3", "4", "5", "6", "7", "8", "9">>

RECURSIVE Decimal(_)
\* the %d verb for a non-negative integer
Decimal(n) ==
    IF n < 10 THEN <<DigitChar[n + 1]>>
    ELSE Decimal(n \div 10) \o <<DigitChar[(n % 10) + 1]>>

----------------------------------------------------------------------------
(* validateSRVResult *)

ErrNone == ""
ErrTwoLabels == "DNS name must contain at least 2 labels"
ErrSuffix == "Domain suffix from SRV record not matched input domain"
Panic == "panic: index out of range"

RECURSIVE CompareSuffixFrom(_, _, _)
CompareSuffixFrom(inputDomainSuffix, recordDomainSuffix, ix) ==
    IF ix > Len(inputDomainSuffix) THEN ErrNone
    ELSE IF ix > Len(recordDomainSuffix) THEN Panic
    ELSE IF inputDomainSuffix[ix] # recordDomainSuffix[ix] THEN ErrSuffix
    ELSE CompareSuffixFrom(inputDomainSuffix, recordDomainSuffix, ix + 1)

\* faulty variant: the loop starts one label late, so the label next to the host's
\* first one is never compared
CompareSuffixSkipFirst(inputDomainSuffix, recordDomainSuffix, ix) ==
    CompareSuffixFrom(inputDomainSuffix, recordDomainSuffix, ix + 1)

\* the loop over inputDomainSuffix
CompareSuffix(inputDomainSuffix, recordDomainSuffix, ix) ==
    CompareSuffixFrom(inputDomainSuffix, recordDomainSuffix, ix)

\* faulty variant: the check len(separatedRecord) < len(separatedInputDomain) is missing
validateSRVResultNoLenCheck(rec, hostName) ==
    LET separatedInputDomain == Split(hostName, ".")
        separatedRecord == Split(rec, ".")
    IN  IF Len(separatedRecord) < 2 THEN ErrTwoLabels
        ELSE LET inputDomainSuffix == Tail(separatedInputDomain)
                 domainSuffixOffset ==
                     Len(separatedRecord) - (Len(separatedInputDomain) - 1)
             IN  IF domainSuffixOffset < 0 \/ domainSuffixOffset > Len(separatedRecord)
                 THEN Panic
                 ELSE CompareSuffix(inputDomainSuffix,
                                    SliceFrom(separatedRecord, domainSuffixOffset), 1)

validateSRVResult(rec, hostName) ==
    LET separatedInputDomain == Split(hostName, ".")
        separatedRecord == Split(rec, ".")
    IN  IF Len(separatedRecord) < 2 THEN ErrTwoLabels
        ELSE IF Len(separatedRecord) < Len(separatedInputDomain) THEN ErrSuffix
        ELSE LET inputDomainSuffix == Tail(separatedInputDomain)
                 domainSuffixOffset ==
                     Len(separatedRecord) - (Len(separatedInputDomain) - 1)
             IN  IF domainSuffixOffset < 0 \/ domainSuffixOffset > Len(separatedRecord)
                 THEN Panic
                 ELSE CompareSuffix(inputDomainSuffix,
                                    SliceFrom(separatedRecord, domainSuffixOffset), 1)

----------------------------------------------------------------------------
(* The SRV pipeline: ResolveHostFromSrvRecords -> fetchSeedlistFromSRV *)

ErrOneHostname == "URI with SRV must include one and only one hostname"
ErrPortNumber == "URI with srv must not include a port number"
ErrLookup == "lookup: no such host"
ErrMissingPort == "missing port in address"
ErrTooManyColons == "too many colons in address"
ErrMissingBracket == "missing ']' in address"
ErrUnexpectedOpen == "unexpected '[' in address"
ErrUnexpectedClose == "unexpected ']' in address"

\* faulty variant: no address is ever recognised as carrying a port
SplitHostPortNeverSplits(hostport) == ErrMissingPort

\* the error of net.SplitHostPort(hostport), ErrNone when it splits
SplitHostPort(hostport) ==
    LET i == LastIndexByte(hostport, ":")
        end == IndexByte(hostport, "]")
        bracketed == Len(hostport) > 0 /\ hostport[1] = "["
        jj == IF bracketed THEN 1 ELSE 0
        kk == IF bracketed THEN end + 1 ELSE 0
    IN  IF i < 0 THEN ErrMissingPort
        ELSE IF bracketed /\ end < 0 THEN ErrMissingBracket
        ELSE IF bracketed /\ end + 1 = Len(hostport) THEN ErrMissingPort
        ELSE IF bracketed /\ end + 1 # i
             THEN IF hostport[end + 2] = ":" THEN ErrTooManyColons ELSE ErrMissingPort
        ELSE IF ~bracketed /\ IndexByte(SubSeq(hostport, 1, i), ":") >= 0
             THEN ErrTooManyColons
        ELSE IF IndexByte(SliceFrom(hostport, jj), "[") >= 0 THEN ErrUnexpectedOpen
        ELSE IF IndexByte(SliceFrom(hostport, kk), "]") >= 0 THEN ErrUnexpectedClose
        ELSE ErrNone

\* net.SRV, with the fields the resolver reads
SRV(target, port) == [Target |-> target, Port |-> port]

HostInputs ==
    { <<"h", ".", "b", ".", "c">>,
      <<"b", ".", "c">>,
      <<"c">>,
      <<"h", ":", "b", ":", "1">>,
      <<"h", ".", "b", ".", "c", ",", "h", ".", "b", ".", "c">>,
      <<"h", ".", "b", ".", "c", ",">>,
      <<"b", ".", "c", ":", "1">>,
      <<"b", ".", "c", ":">>,
      <<"[", "h", "]", ":", "1">>,
      <<"h", ":", "1", ",", "c">> }

SRVRecords ==
    { SRV(<<"x", ".", "b", ".", "c", ".">>, 27017),
      SRV(<<"x", ".", "b", ".", "c", ".">>, 27018),
      SRV(<<"x", ".", "e", ".", "c">>, 27017) }

\* a []*net.SRV field of the resolver: nil, or a slice of at most n records
Slices(n) ==
    {[nil |-> TRUE, elems |-> <<>>]}
        \cup {[nil |-> FALSE, elems |-> s] : s \in SeqsUpTo(SRVRecords, n)}

\* the answers net.LookupSRV can give
SRVAnswers ==
    {[err |-> ErrLookup, addrs |-> <<>>]}
        \cup {[err |-> ErrNone, addrs |-> s] : s \in SeqsUpTo(SRVRecords, MaxLookup)}

\* the slice `addresses`: the first alen cells of its backing array
addresses == SubSeq(backing, 1, alen)

InitSRV ==
    /\ pc = "call"
    /\ host \in HostInputs
    /\ RecordsToAdd \in Slices(MaxAdd)
    /\ RecordsToRemove \in Slices(MaxRemove)
    /\ lookupSRV = [err |-> ErrNone, addrs |-> <<>>]
    /\ srvQueries = 0
    /\ backing = <<>>
    /\ alen = 0
    /\ ri = 1
    /\ j = 0
    /\ rangeLen = 0
    /\ parsedHosts = <<>>
    /\ err = ErrNone
    /\ goos = "linux"
    /\ lookupTXT = [err |-> ErrNone, recs |-> <<>>]
    /\ recordsFromTXT = <<>>
    /\ connectionArgsFromTXT = <<>>
    /\ recordFromSRV = <<>>
    /\ inputHostName = <<>>
    /\ valResult = ErrNone

srvInputs == <<host, RecordsToAdd, RecordsToRemove>>
otherCalls == <<goos, lookupTXT, recordsFromTXT, connectionArgsFromTXT, recordFromSRV,
                inputHostName, valResult>>
loopVars == <<backing, alen, ri, j, rangeLen>>

\* return nil, e
ReturnError(e) ==
    /\ pc' = "done"
    /\ err' = e
    /\ parsedHosts' = <<>>

\* ResolveHostFromSrvRecords up to the call of fetchSeedlistFromSRV, and
\* fetchSeedlistFromSRV up to the lookup
CheckHost ==
    /\ pc = "call"
    /\ LET parsed == Split(host, ",") IN
       IF Len(parsed) # 1 THEN ReturnError(ErrOneHostname)
       ELSE IF SplitHostPort(parsed[1]) = ErrNone THEN ReturnError(ErrPortNumber)
       ELSE pc' = "lookup" /\ UNCHANGED <<err, parsedHosts>>
    /\ UNCHANGED <<srvInputs, lookupSRV, srvQueries, loopVars, otherCalls>>

\* net.LookupSRV("mongodb", "tcp", host)
LookupSRV ==
    /\ pc = "lookup"
    /\ \E answer \in SRVAnswers :
        /\ lookupSRV' = answer
        /\ srvQueries' = srvQueries + 1
        /\ IF answer.err # ErrNone
           THEN ReturnError(answer.err) /\ UNCHANGED <<backing, alen>>
           ELSE /\ pc' = "add"
                /\ backing' = answer.addrs
                /\ alen' = Len(answer.addrs)
                /\ UNCHANGED <<err, parsedHosts>>
    /\ UNCHANGED <<srvInputs, ri, j, rangeLen, otherCalls>>

\* faulty variant: the added records are put in front of the looked-up ones
AppendRecordsInFront(addrs, more) == more \o addrs

\* append(addresses, d.RecordsToAdd...)
AppendRecords(addrs, more) == addrs \o more

\* if d.RecordsToAdd != nil { ... }, and entry to the removal loops
AddRecords ==
    /\ pc = "add"
    /\ LET grown == IF RecordsToAdd.nil THEN addresses
                    ELSE AppendRecords(addresses, RecordsToAdd.elems)
       IN  /\ backing' = grown
           /\ alen' = Len(grown)
           /\ rangeLen' = Len(grown)
    /\ ri' = 1
    /\ j' = 0
    /\ pc' = "remove"
    /\ UNCHANGED <<srvInputs, lookupSRV, srvQueries, parsedHosts, err, otherCalls>>

\* removeAddr.Target == addr.Target && removeAddr.Port == addr.Port
Matches(removeAddr, addr) ==
    removeAddr.Target = addr.Target /\ removeAddr.Port = addr.Port

\* the backing array after append(addresses[:j], addresses[j+1:]...) with
\* p = j+1 <= len: cells p+1..len move one place down, in place
ShiftLeft(arr, len, p) ==
    [k \in 1..Len(arr) |-> IF k >= p /\ k < len THEN arr[k + 1] ELSE arr[k]]

removing == ~RecordsToRemove.nil /\ ri <= Len(RecordsToRemove.elems)

\* one iteration of the inner loop, for j, addr := range addresses
RemoveIter ==
    /\ pc = "remove"
    /\ removing
    /\ j < rangeLen
    /\ LET removeAddr == RecordsToRemove.elems[ri]
           addr == backing[j + 1]
       IN  IF Matches(removeAddr, addr)
           THEN IF j + 1 > alen
                THEN \* addresses[j+1:] with j+1 > len(addresses)
                     pc' = "panic" /\ UNCHANGED <<backing, alen, j>>
                ELSE /\ backing' = ShiftLeft(backing, alen, j + 1)
                     /\ alen' = alen - 1
                     /\ j' = j + 1
                     /\ pc' = "remove"
           ELSE j' = j + 1 /\ UNCHANGED <<backing, alen, pc>>
    /\ UNCHANGED <<srvInputs, lookupSRV, srvQueries, ri, rangeLen, parsedHosts,
                   err, otherCalls>>

\* the inner loop is exhausted: the outer loop takes the next removeAddr and
\* the inner range statement is evaluated again
RemoveNextEntry ==
    /\ pc = "remove"
    /\ removing
    /\ j >= rangeLen
    /\ ri' = ri + 1
    /\ j' = 0
    /\ rangeLen' = alen
    /\ UNCHANGED <<pc, srvInputs, lookupSRV, srvQueries, backing, alen,
                   parsedHosts, err, otherCalls>>

RECURSIVE FormatFromPartial(_, _, _, _)
\* faulty variant: the hosts formatted before the invalid record are returned
FormatFromPartial(addrs, hostName, i, acc) ==
    IF i > Len(addrs) THEN [hosts |-> acc, err |-> ErrNone]
    ELSE LET trimmedAddressTarget == TrimSuffix(addrs[i].Target, <<".">>)
             e == validateSRVResult(trimmedAddressTarget, hostName)
         IN  IF e # ErrNone THEN [hosts |-> acc, err |-> e]
             ELSE FormatFromPartial(addrs, hostName, i + 1,
                      Append(acc, trimmedAddressTarget \o <<":">> \o Decimal(addrs[i].Port)))

RECURSIVE FormatFrom(_, _, _, _)
FormatFrom(addrs, hostName, i, acc) ==
    IF i > Len(addrs) THEN [hosts |-> acc, err |-> ErrNone]
    ELSE LET trimmedAddressTarget == TrimSuffix(addrs[i].Target, <<".">>)
             e == validateSRVResult(trimmedAddressTarget, hostName)
         IN  IF e # ErrNone THEN [hosts |-> <<>>, err |-> e]
             ELSE FormatFrom(addrs, hostName, i + 1,
                      Append(acc, trimmedAddressTarget \o <<":">> \o Decimal(addrs[i].Port)))

\* the loop that validates and formats every address
ValidateAndFormat(addrs, hostName, i, acc) == FormatFrom(addrs, hostName, i, acc)

\* the removal loops are over (or RecordsToRemove is nil): validate, format,
\* return
ValidateRecords ==
    /\ pc = "remove"
    /\ ~removing
    /\ LET out == ValidateAndFormat(addresses, host, 1, <<>>) IN
       IF out.err = Panic THEN pc' = "panic" /\ UNCHANGED <<err, parsedHosts>>
       ELSE /\ pc' = "done"
            /\ err' = out.err
            /\ parsedHosts' = out.hosts
    /\ UNCHANGED <<srvInputs, lookupSRV, srvQueries, loopVars, otherCalls>>

NextSRV ==
    \/ CheckHost
    \/ LookupSRV
    \/ AddRecords
    \/ RemoveIter
    \/ RemoveNextEntry
    \/ ValidateRecords

SpecSRV == InitSRV /\ [][NextSRV]_vars

----------------------------------------------------------------------------
(* Direct calls of validateSRVResult on dot-separated names *)

Labels == { <<>>, <<"a">>, <<"A">>, <<"a", "a">> }

\* the names of at most MaxLabels labels
Names == {Join(ls, <<".">>) : ls \in SeqsUpTo(Labels, MaxLabels) \ {<<>>}}

srvCall == <<host, RecordsToAdd, RecordsToRemove, lookupSRV, srvQueries, backing,
             alen, ri, j, rangeLen, parsedHosts>>
txtCall == <<goos, lookupTXT, recordsFromTXT, connectionArgsFromTXT>>

InitValidate ==
    /\ pc = "validate"
    /\ recordFromSRV \in Names
    /\ inputHostName \in Names
    /\ valResult = ErrNone
    /\ host = <<>>
    /\ RecordsToAdd = [nil |-> TRUE, elems |-> <<>>]
    /\ RecordsToRemove = [nil |-> TRUE, elems |-> <<>>]
    /\ lookupSRV = [err |-> ErrNone, addrs |-> <<>>]
    /\ srvQueries = 0
    /\ backing = <<>>
    /\ alen = 0
    /\ ri = 1
    /\ j = 0
    /\ rangeLen = 0
    /\ parsedHosts = <<>>
    /\ err = ErrNone
    /\ goos = "linux"
    /\ lookupTXT = [err |-> ErrNone, recs |-> <<>>]
    /\ recordsFromTXT = <<>>
    /\ connectionArgsFromTXT = <<>>

ValidateCall ==
    /\ pc = "validate"
    /\ valResult' = validateSRVResult(recordFromSRV, inputHostName)
    /\ pc' = "validated"
    /\ UNCHANGED <<recordFromSRV, inputHostName, err, srvCall, txtCall>>

NextValidate == ValidateCall

SpecValidate == InitValidate /\ [][NextValidate]_vars

----------------------------------------------------------------------------
(* The TXT pipeline: ResolveAdditionalQueryParametersFromTxtRecords *)

ErrMultipleTXT == "multiple records from TXT not supported"
ErrInvalidTXT == "Invalid TXT record"
ErrOptionTXT == "Cannot specify option in TXT record"   \* the key is left out

UpperCase == <<"A", "B", "C", "D", "E", "F", "G", "H", "I", "J", "K", "L", "M",
               "N", "O", "P", "Q", "R", "S", "T", "U", "V", "W", "X", "Y", "Z">>
LowerCase == <<"a", "b", "c", "d", "e", "f", "g", "h", "i", "j", "k", "l", "m",
               "n", "o", "p", "q", "r", "s", "t", "u", "v", "w", "x", "y", "z">>

LowerChar(c) ==
    IF \E k \in 1..26 : UpperCase[k] = c
    THEN LowerCase[CHOOSE k \in 1..26 : UpperCase[k] = c]
    ELSE c

\* strings.ToLower(s)
ToLower(s) == [k \in 1..Len(s) |-> LowerChar(s[k])]

RECURSIVE FieldsAcc(_, _, _, _, _)
\* the fields of s[k:] given the field cur begun before k; empty fields are
\* kept when keepEmpty
FieldsAcc(s, seps, k, cur, keepEmpty) ==
    LET closed == IF cur = <<>> /\ ~keepEmpty THEN <<>> ELSE <<cur>> IN
    IF k > Len(s) THEN closed
    ELSE IF s[k] \in seps THEN closed \o FieldsAcc(s, seps, k + 1, <<>>, keepEmpty)
    ELSE FieldsAcc(s, seps, k + 1, Append(cur, s[k]), keepEmpty)

\* faulty variant: the record is cut at every separator, empty fields included
FieldsFuncKeepEmpty(s, seps) == FieldsAcc(s, seps, 1, <<>>, TRUE)

\* strings.FieldsFunc(s, f) where f holds of the characters in seps: the
\* maximal runs of other characters
FieldsFunc(s, seps) == FieldsAcc(s, seps, 1, <<>>, FALSE)

\* strings.SplitN(s, sep, 2) for a one-character separator
SplitN2(s, sep) ==
    LET i == IndexByte(s, sep) IN
    IF i < 0 THEN <<s>> ELSE <<SubSeq(s, 1, i), SliceFrom(s, i + 1)>>

allowedTXTOptions ==
    { <<"a", "u", "t", "h", "s", "o", "u", "r", "c", "e">>,
      <<"r", "e", "p", "l", "i", "c", "a", "s", "e", "t">> }

RECURSIVE validateTXTFrom(_, _)
validateTXTFrom(paramsFromTXT, i) ==
    IF i > Len(paramsFromTXT) THEN ErrNone
    ELSE LET kv == SplitN2(paramsFromTXT[i], "=") IN
         IF Len(kv) # 2 THEN ErrInvalidTXT
         ELSE IF ToLower(kv[1]) \notin allowedTXTOptions THEN ErrOptionTXT
         ELSE validateTXTFrom(paramsFromTXT, i + 1)

\* faulty variant: only the first parameter is validated
validateTXTResultFirstOnly(paramsFromTXT) ==
    IF paramsFromTXT = <<>> THEN ErrNone
    ELSE validateTXTFrom(<<paramsFromTXT[1]>>, 1)

validateTXTResult(paramsFromTXT) == validateTXTFrom(paramsFromTXT, 1)

\* faulty variant: two records are let through
TooManyRecordsOffByOne(records) == Len(records) > 2

\* len(recordsFromTXT) > 1
TooManyRecords(records) == Len(records) > 1

TXTPieces ==
    { <<"a", "u", "t", "h", "S", "o", "u", "r", "c", "e", "=", "a">>,
      <<"R", "E", "P", "L", "I", "C", "A", "S", "E", "T", "=", "r">>,
      <<"s", "s", "l", "=", "t">>,
      <<"x">>,
      <<";">>,
      <<"&">>,
      <<"\n">> }

\* the answers net.LookupTXT can give: an error, no record, or the records
\* that at most MaxPieces pieces spell, a new record starting at each "\n"
TXTAnswers ==
    {[err |-> ErrLookup, recs |-> <<>>], [err |-> ErrNone, recs |-> <<>>]}
        \cup {[err |-> ErrNone, recs |-> Split(Concat(ps), "\n")] :
                  ps \in SeqsUpTo(TXTPieces, MaxPieces)}

InitTXT ==
    /\ pc = "txt"
    /\ goos \in {"windows", "linux"}
    /\ host \in {<<"h", ".", "b", ".", "c">>}
    /\ lookupTXT = [err |-> ErrNone, recs |-> <<>>]
    /\ recordsFromTXT = <<>>
    /\ connectionArgsFromTXT = <<>>
    /\ err = ErrNone
    /\ RecordsToAdd = [nil |-> TRUE, elems |-> <<>>]
    /\ RecordsToRemove = [nil |-> TRUE, elems |-> <<>>]
    /\ lookupSRV = [err |-> ErrNone, addrs |-> <<>>]
    /\ srvQueries = 0
    /\ backing = <<>>
    /\ alen = 0
    /\ ri = 1
    /\ j = 0
    /\ rangeLen = 0
    /\ parsedHosts = <<>>
    /\ recordFromSRV = <<>>
    /\ inputHostName = <<>>
    /\ valResult = ErrNone

srvState == <<RecordsToAdd, RecordsToRemove, lookupSRV, srvQueries, backing,
              alen, ri, j, rangeLen, parsedHosts>>
validateCall == <<recordFromSRV, inputHostName, valResult>>

\* recordsFromTXT, _ := net.LookupTXT(host)
LookupTXT ==
    /\ pc = "txt"
    /\ \E answer \in TXTAnswers :
        /\ lookupTXT' = answer
        /\ recordsFromTXT' = answer.recs
    /\ pc' = "platform"
    /\ UNCHANGED <<host, goos, connectionArgsFromTXT, err, srvState, validateCall>>

\* if runtime.GOOS == "windows" { ... }
PlatformJoin ==
    /\ pc = "platform"
    /\ recordsFromTXT' = IF goos = "windows"
                         THEN <<Join(recordsFromTXT, <<>>)>>
                         ELSE recordsFromTXT
    /\ pc' = "parse"
    /\ UNCHANGED <<host, goos, lookupTXT, connectionArgsFromTXT, err, srvState,
                   validateCall>>

\* the record count check, the split into parameters and their validation
ParseTXT ==
    /\ pc = "parse"
    /\ IF TooManyRecords(recordsFromTXT)
       THEN err' = ErrMultipleTXT /\ connectionArgsFromTXT' = <<>>
       ELSE IF Len(recordsFromTXT) > 0
       THEN LET args == FieldsFunc(recordsFromTXT[1], {";", "&"})
                e == validateTXTResult(args)
            IN  IF e # ErrNone
                THEN err' = e /\ connectionArgsFromTXT' = <<>>
                ELSE err' = ErrNone /\ connectionArgsFromTXT' = args
       ELSE err' = ErrNone /\ connectionArgsFromTXT' = <<>>
    /\ pc' = "done"
    /\ UNCHANGED <<host, goos, lookupTXT, recordsFromTXT, srvState, validateCall>>

NextTXT ==
    \/ LookupTXT
    \/ PlatformJoin
    \/ ParseTXT

SpecTXT == InitTXT /\ [][NextTXT]_vars

----------------------------------------------------------------------------
(* Properties of the SRV pipeline, under SpecSRV *)

HasStrSuffix(s, suffix) ==
    Len(s) >= Len(suffix) /\ SubSeq(s, Len(s) - Len(suffix) + 1, Len(s)) = suffix

\* name t lies in parent(h), h without its first label: t is the parent or
\* ends with "." followed by the parent. A host of one label has the root as
\* its parent, which every name lies in.
InParentDomain(t, h) ==
    LET dot == IndexByte(h, ".") IN
    \/ dot < 0
    \/ LET parent == SliceFrom(h, dot + 1) IN
       t = parent \/ HasStrSuffix(t, <<".">> \o parent)

\* the host of a "host:port" seed address
SeedHost(seed) == SubSeq(seed, 1, LastIndexByte(seed, ":"))

Trimmed(r) == TrimSuffix(r.Target, <<".">>)

\* C1: when a record of the working set that is validated has a target
\* (less one trailing dot) outside parent(host), the call returns an error;
\* and no successful call returns a seed address whose host is outside
\* parent(host). Holds for looked-up and added records alike.
C1_OutsideParentFails ==
    pc = "done" =>
        /\ (\E k \in 1..alen : ~InParentDomain(Trimmed(addresses[k]), host))
               => err # ErrNone
        /\ err = ErrNone =>
               \A k \in 1..Len(parsedHosts) : InParentDomain(SeedHost(parsedHosts[k]), host)

\* a call failed on a record that RecordsToAdd supplied, all looked-up
\* records being inside the parent domain
C1_Witness ==
    /\ pc = "done"
    /\ err = ErrSuffix
    /\ Len(lookupSRV.addrs) >= 1
    /\ \A k \in 1..Len(lookupSRV.addrs) : InParentDomain(Trimmed(lookupSRV.addrs[k]), host)
    /\ \E k \in 1..Len(RecordsToAdd.elems) :
           ~InParentDomain(Trimmed(RecordsToAdd.elems[k]), host)
    /\ \E k \in 1..alen : ~InParentDomain(Trimmed(addresses[k]), host)

\* C2: all-or-nothing. When some record of the validated working set fails
\* validateSRVResult, at whatever position, the call returns an error and a
\* nil list.
C2_AllOrNothing ==
    (pc = "done" /\ \E k \in 1..alen : validateSRVResult(Trimmed(addresses[k]), host) # ErrNone)
        => (err # ErrNone /\ parsedHosts = <<>>)

\* a call failed on an invalid record that came after a valid one
C2_Witness ==
    /\ pc = "done"
    /\ alen >= 2
    /\ validateSRVResult(Trimmed(addresses[1]), host) = ErrNone
    /\ validateSRVResult(Trimmed(addresses[alen]), host) # ErrNone
    /\ err # ErrNone
    /\ parsedHosts = <<>>

Count(s, c) == Cardinality({k \in 1..Len(s) : s[k] = c})

HasHostList(h) == Count(h, ",") > 0
HasExplicitPort(h) == Count(h, ":") = 1 /\ Count(h, "[") = 0 /\ Count(h, "]") = 0

\* C3: for a host string that holds a comma-separated list, or a host with
\* an explicit port, no SRV query is ever issued and the call returns one of
\* the two input errors and no list.
C3_InputChecksPrecedeLookup ==
    (HasHostList(host) \/ HasExplicitPort(host)) =>
        /\ srvQueries = 0
        /\ pc \in {"call", "done"}
        /\ pc = "done" => /\ err = (IF HasHostList(host) THEN ErrOneHostname ELSE ErrPortNumber)
                          /\ parsedHosts = <<>>

\* a host:port call has returned
C3_Witness ==
    /\ pc = "done"
    /\ HasExplicitPort(host)
    /\ ~HasHostList(host)
    /\ err = ErrPortNumber
    /\ srvQueries = 0

\* the working set before the removal step
WorkingSet == lookupSRV.addrs \o RecordsToAdd.elems

ListedForRemoval(r) ==
    \E m \in 1..Len(RecordsToRemove.elems) : Matches(RecordsToRemove.elems[m], r)

NotListedForRemoval(r) == ~ListedForRemoval(r)

\* C7 as claimed: once the removal step is over, no record of the working
\* set matches an entry of RecordsToRemove.
C7_AllMatchesRemoved ==
    ((pc = "remove" /\ ~removing) \/ (pc = "done" /\ srvQueries > 0))
        => \A k \in 1..alen : ~ListedForRemoval(addresses[k])

RECURSIVE IsSubsequence(_, _)
\* a is b with some elements left out
IsSubsequence(a, b) ==
    IF a = <<>> THEN TRUE
    ELSE IF b = <<>> THEN FALSE
    ELSE IF Head(a) = Head(b) THEN IsSubsequence(Tail(a), Tail(b))
    ELSE IsSubsequence(a, Tail(b))

SeedAddress(r) == Trimmed(r) \o <<":">> \o Decimal(r.Port)

C10_NoPanic == pc # "panic"

----------------------------------------------------------------------------
(* Properties of validateSRVResult, under SpecValidate *)

targetLabels == Split(recordFromSRV, ".")
hostLabels == Split(inputHostName, ".")

\* C9: the target is accepted exactly when it has at least 2 labels, at
\* least as many labels as the host, and its last len(hostLabels)-1 labels
\* equal the host's labels after the first, one by one and case-sensitively;
\* and the comparison never indexes outside the target's labels.
C9_AcceptsExactly ==
    pc = "validated" =>
        /\ valResult # Panic
        /\ valResult = ErrNone <=>
               /\ Len(targetLabels) >= 2
               /\ Len(targetLabels) >= Len(hostLabels)
               /\ \A k \in 2..Len(hostLabels) :
                      targetLabels[Len(targetLabels) - Len(hostLabels) + k] = hostLabels[k]

\* a target accepted for a host of two labels, with more labels than the host
C9_Witness ==
    /\ pc = "validated"
    /\ valResult = ErrNone
    /\ Len(hostLabels) = 2
    /\ Len(targetLabels) = 3

----------------------------------------------------------------------------
(* Properties of the TXT pipeline, under SpecTXT *)

TXTSeparators == {";", "&"}

\* record[a..b] (1-based) is a token: a maximal run of characters other than
\* ; and &
IsToken(record, a, b) ==
    /\ a <= b
    /\ \A k \in a..b : record[k] \notin TXTSeparators
    /\ a = 1 \/ record[a - 1] \in TXTSeparators
    /\ b = Len(record) \/ record[b + 1] \in TXTSeparators

\* the token has an "=" and the text before the first one, lowercased, is
\* authsource or replicaset
AllowedToken(t) ==
    \E k \in 1..Len(t) :
        /\ t[k] = "="
        /\ \A m \in 1..(k - 1) : t[m] # "="
        /\ ToLower(SubSeq(t, 1, k - 1)) \in allowedTXTOptions

\* C4: every option returned without error is an allowed token; and when a
\* token of the single TXT record is not allowed, the call returns an error
\* and no options.
C4_AllowList ==
    pc = "done" =>
        /\ err = ErrNone =>
               \A k \in 1..Len(connectionArgsFromTXT) : AllowedToken(connectionArgsFromTXT[k])
        /\ (/\ Len(recordsFromTXT) = 1
            /\ \E a, b \in 1..Len(recordsFromTXT[1]) :
                   /\ IsToken(recordsFromTXT[1], a, b)
                   /\ ~AllowedToken(SubSeq(recordsFromTXT[1], a, b)))
               => (err # ErrNone /\ connectionArgsFromTXT = <<>>)

\* a record of an allowed token followed by a token with another key is
\* rejected
C4_Witness ==
    /\ pc = "done"
    /\ Len(recordsFromTXT) = 1
    /\ err = ErrOptionTXT
    /\ connectionArgsFromTXT = <<>>
    /\ \E a, b \in 1..Len(recordsFromTXT[1]) :
           /\ a > 1
           /\ IsToken(recordsFromTXT[1], a, b)
           /\ ~AllowedToken(SubSeq(recordsFromTXT[1], a, b))
    /\ \E b \in 1..Len(recordsFromTXT[1]) :
           /\ IsToken(recordsFromTXT[1], 1, b)
           /\ AllowedToken(SubSeq(recordsFromTXT[1], 1, b))

C6_NoRecordNoError ==
    (pc = "done" /\ (lookupTXT.err # ErrNone \/ Len(lookupTXT.recs) = 0))
        => (err = ErrNone /\ connectionArgsFromTXT = <<>>)

\* a failed lookup on windows, where the records are joined first
C6_Witness ==
    /\ pc = "done"
    /\ goos = "windows"
    /\ lookupTXT.err # ErrNone
    /\ recordsFromTXT = << <<>> >>
    /\ err = ErrNone

====
